---- MODULE Spec2Model ----
(***************************************************************************)
(* Model of the dashboard page of bb_sentiment_chat (src/app/page.tsx):    *)
(* the dataset loader (loadData), the relevance helpers, the prompt built  *)
(* by processDataForChat, the call of the generation backend and the       *)
(* conversation state kept by the Dashboard component.                     *)
(*                                                                         *)
(* Text is a sequence of one-character strings, so that toLowerCase,       *)
(* split, trim and includes are computed character by character.           *)
(***************************************************************************)
EXTENDS Integers, Sequences, FiniteSets, TLC

VARIABLES
  loadPc,        \* position of loadData: "fetch", "analysisJson", "sentimentJson", "tweetsText", "done"
  analysisJson,  \* local of loadData: the parsed analysis document
  sentimentJson, \* local of loadData: the parsed sentiment document
  analysisData,  \* useState: the analysis report, or null / undefined
  loading,       \* useState: the page is still loading
  chartData,     \* useState: rows of the sentiment chart
  tweets,        \* useState: the parsed interaction log
  sentimentData, \* useState: the sentiment document, or null
  setCalls,      \* which of the four dataset setters loadData has called
  messages,      \* useState: the transcript
  input,         \* useState: the pending input
  chatLoading,   \* useState: a send is waiting for the backend
  inflight,      \* the processDataForChat calls suspended at an await
  requests,      \* number of POSTs made to the generation backend
  escaped,       \* an exception left handleSendMessage
  event,         \* the last event delivered to the page
  trendArg,      \* argument of a stand-alone call of analyzeSentimentTrends
  trendResult    \* its result

vars == <<loadPc, analysisJson, sentimentJson, analysisData, loading, chartData,
          tweets, sentimentData, setCalls, messages, input, chatLoading,
          inflight, requests, escaped, event, trendArg, trendResult>>

loadVars == <<loadPc, analysisJson, sentimentJson, analysisData, loading,
              chartData, tweets, sentimentData, setCalls>>
chatVars == <<messages, input, chatLoading, inflight, requests, escaped>>
trendVars == <<trendArg, trendResult>>

----------------------------------------------------------------------------
(* Bounds of the model *)

MaxSends == 2
MaxPeriods == 4

----------------------------------------------------------------------------
(* Generic helpers *)

\* longest transcript: every accepted send appends two messages
MaxMessages == 2 * MaxSends

Min(a, b) == IF a < b THEN a ELSE b
Max(a, b) == IF a > b THEN a ELSE b

Null == [kind |-> "null"]
Undefined == [kind |-> "undefined"]
NoEvent == [op |-> "none", outcome |-> "none", id |-> 0]

----------------------------------------------------------------------------
(* String primitives of the JavaScript runtime, on sequences of characters *)

\* String.prototype.toLowerCase, one character
LowerChar(c) == CASE c = "R" -> "r" [] c = "X" -> "x" [] OTHER -> c

\* String.prototype.toLowerCase
ToLowerCase(s) == [i \in 1..Len(s) |-> LowerChar(s[i])]

\* the white space String.prototype.trim removes
IsSpace(c) == c = " "

RECURSIVE TrimStart(_)
TrimStart(s) ==
  IF s # <<>> /\ IsSpace(Head(s)) THEN TrimStart(Tail(s)) ELSE s

RECURSIVE TrimEnd(_)
TrimEnd(s) ==
  IF s # <<>> /\ IsSpace(s[Len(s)]) THEN TrimEnd(SubSeq(s, 1, Len(s) - 1)) ELSE s

\* a guard that tests the raw input instead of the trimmed one
TrimUntrimmed(s) == s

\* String.prototype.trim, as used by the guard of handleSendMessage
Trim(s) == TrimEnd(TrimStart(s))

\* String.prototype.split(' '): cuts at every single space, keeps empty pieces
RECURSIVE SplitFrom(_, _, _)
SplitFrom(s, i, cur) ==
  IF i > Len(s) THEN <<cur>>
  ELSE IF s[i] = " " THEN <<cur>> \o SplitFrom(s, i + 1, <<>>)
  ELSE SplitFrom(s, i + 1, Append(cur, s[i]))

SplitOnSpace(s) == SplitFrom(s, 1, <<>>)

\* String.prototype.includes: term occurs in text (the empty term always does)
Includes(text, term) ==
  \E i \in 0..(Len(text) - Len(term)) : SubSeq(text, i + 1, i + Len(term)) = term

\* Array.prototype.slice(0, limit)
SliceFirst(xs, limit) == SubSeq(xs, 1, Min(limit, Len(xs)))

\* Array.prototype.slice(-n)
SliceLast(xs, n) == SubSeq(xs, Max(1, Len(xs) - n + 1), Len(xs))

----------------------------------------------------------------------------
(* Relevance helpers *)

\* default value of the limit parameter of findRelevantTweets
TweetLimit == 5

\* number of months kept by analyzeSentimentTrends (slice(-3))
TrendMonths == 3

\* query.toLowerCase().split(' ')
SearchTerms(query) == SplitOnSpace(ToLowerCase(query))

\* searchTerms.some(term => tweetText.includes(term))
TweetMatches(tweet, searchTerms) ==
  \E k \in 1..Len(searchTerms) : Includes(ToLowerCase(tweet.text), searchTerms[k])

findRelevantTweets(tws, query) ==
  SliceFirst(SelectSeq(tws, LAMBDA tweet : TweetMatches(tweet, SearchTerms(query))),
             TweetLimit)

\* searchTerms.some(term => title.includes(term) || description.includes(term))
ItemMatches(item, searchTerms) ==
  \E k \in 1..Len(searchTerms) :
    \/ Includes(ToLowerCase(item.title), searchTerms[k])
    \/ Includes(ToLowerCase(item.description), searchTerms[k])

findRelevantRecommendations(report, query) ==
  SelectSeq(report.recommendations, LAMBDA rec : ItemMatches(rec, SearchTerms(query)))

findRelevantIssues(report, query) ==
  SelectSeq(report.keyIssues, LAMBDA issue : ItemMatches(issue, SearchTerms(query)))

----------------------------------------------------------------------------
(* Period keys and analyzeSentimentTrends *)

Digit(c) ==
  CASE c = "0" -> 0 [] c = "1" -> 1 [] c = "2" -> 2 [] c = "3" -> 3 [] c = "4" -> 4
    [] c = "5" -> 5 [] c = "6" -> 6 [] c = "7" -> 7 [] c = "8" -> 8 [] c = "9" -> 9

\* the year and month fields of a "YYYY-MM" key, as new Date(key) reads them
KeyYear(k) == 1000 * Digit(k[1]) + 100 * Digit(k[2]) + 10 * Digit(k[3]) + Digit(k[4])
KeyMonth(k) == 10 * Digit(k[6]) + Digit(k[7])

IsLeap(y) == (y % 4 = 0 /\ y % 100 # 0) \/ y % 400 = 0

DaysBeforeMonth(y, m) ==
  LET len == <<31, IF IsLeap(y) THEN 29 ELSE 28, 31, 30, 31, 30, 31, 31, 30, 31, 30, 31>>
      F[i \in 0..12] == IF i = 0 THEN 0 ELSE F[i - 1] + len[i]
  IN  F[m - 1]

DaysBeforeYear(y) ==
  LET p == y - 1
  IN  365 * (y - 1970) + (p \div 4 - 1969 \div 4) - (p \div 100 - 1969 \div 100)
        + (p \div 400 - 1969 \div 400)

\* new Date("YYYY-MM").getTime(): midnight UTC of the first day of the month.
\* The value is kept in days since the epoch (the milliseconds divided by 86400000).
GetTime(k) == DaysBeforeYear(KeyYear(k)) + DaysBeforeMonth(KeyYear(k), KeyMonth(k))

\* a comparator with its operands exchanged
CompareMonthsReversed(a, b) == GetTime(b[1]) - GetTime(a[1])

\* the comparator ([a], [b]) => new Date(a).getTime() - new Date(b).getTime()
CompareMonths(a, b) == GetTime(a[1]) - GetTime(b[1])

\* Array.prototype.sort with that comparator: a stable sort
RECURSIVE InsertSorted(_, _)
InsertSorted(sorted, e) ==
  IF sorted = <<>> THEN <<e>>
  ELSE IF CompareMonths(e, sorted[Len(sorted)]) >= 0 THEN Append(sorted, e)
  ELSE Append(InsertSorted(SubSeq(sorted, 1, Len(sorted) - 1), e), sorted[Len(sorted)])

RECURSIVE SortMonths(_)
SortMonths(entries) ==
  IF entries = <<>> THEN <<>>
  ELSE InsertSorted(SortMonths(SubSeq(entries, 1, Len(entries) - 1)), entries[Len(entries)])

\* sortedMonths[i], undefined outside the array
At(xs, i) == IF i \in 1..Len(xs) THEN xs[i] ELSE Undefined

\* sd is a sentiment document that has its monthly_sentiment map, kept as the
\* sequence of its [key, value] entries in insertion order (Object.entries)
analyzeSentimentTrends(sd) ==
  LET sortedMonths == SortMonths(sd.monthly_sentiment)
  IN  [earliest |-> At(sortedMonths, 1),
       latest   |-> At(sortedMonths, Len(sortedMonths)),
       trend    |-> SliceLast(sortedMonths, TrendMonths)]

----------------------------------------------------------------------------
(* processDataForChat: the prompt *)

\* Number.prototype.toFixed(2) of a score kept in thousandths: the score
\* rounded to hundredths
ToFixed2(score) ==
  IF score >= 0 THEN (score + 5) \div 10 ELSE 0 - ((5 - score) \div 10)

\* t.inbound === 'True' ? 'Customer' : 'Amazon'
Speaker(t) ==
  IF t.inbound.type = "string" /\ t.inbound.val = "True" THEN "Customer" ELSE "Amazon"

TweetLine(t) == [created_at |-> t.created_at, speaker |-> Speaker(t), text |-> t.text]

TrendLine(e) ==
  [month |-> e[1], score |-> ToFixed2(e[2].average_score), positive |-> e[2].positive,
   negative |-> e[2].negative, neutral |-> e[2].neutral]

ItemLine(i) == [title |-> i.title, description |-> i.description]

\* the Array.prototype.map calls of the template literal
TweetLines(ts) == [i \in 1..Len(ts) |-> TweetLine(ts[i])]
TrendLines(es) == [i \in 1..Len(es) |-> TrendLine(es[i])]
ItemLines(is) == [i \in 1..Len(is) |-> ItemLine(is[i])]

\* The helpers and the template literal throw a TypeError when the sentiment
\* document has no monthly_sentiment (Object.entries(undefined)) and when the
\* map is empty (sentimentTrends.earliest is undefined and is indexed).
ContextThrows(sd) ==
  \/ sd.kind # "object"
  \/ ~sd.has_monthly
  \/ sd.monthly_sentiment = <<>>

\* the template literal of processDataForChat, section by section
Context(query, report, sd, tws) ==
  LET relevantTweets == findRelevantTweets(tws, query)
      sentimentTrends == analyzeSentimentTrends(sd)
      relevantRecommendations == findRelevantRecommendations(report, query)
      relevantIssues == findRelevantIssues(report, query)
  IN  [total           |-> Len(tws),
       examples        |-> TweetLines(relevantTweets),
       range           |-> <<sentimentTrends.earliest[1], sentimentTrends.latest[1]>>,
       trends          |-> TrendLines(sentimentTrends.trend),
       timestamp       |-> report.timestamp,
       issues          |-> ItemLines(relevantIssues),
       recommendations |-> ItemLines(relevantRecommendations),
       question        |-> query]

\* the text returned by the catch block of processDataForChat, and appended by
\* the catch block of handleSendMessage
FallbackText ==
  <<"Sorry, I encountered an error processing your request. Please try again.">>

\* a catch block that returns the message of the error it caught
ErrorMessageReply == <<"Network response was not ok">>

\* return value of the catch block of processDataForChat
OllamaErrorReply == FallbackText

\* response.ok
ResponseOk(status) == status \in 200..299

\* data.response: the text the backend generated for the prompt
Answer(prompt) == <<"answer to">> \o prompt.question

----------------------------------------------------------------------------
(* The documents the loader may be served *)

Report ==
  [kind |-> "report", timestamp |-> "2024-05-01T10:00:00Z",
   keyIssues |-> <<[id |-> 1, title |-> <<"R">>, description |-> <<"x">>]>>,
   recommendations |-> <<[id |-> 1, title |-> <<"x">>, description |-> <<"x">>]>>]

\* outcomes of analysisResponse.json(): a rejection, or the parsed document
AnalysisDocs ==
  {[ok |-> FALSE, analysisData |-> Undefined],
   [ok |-> TRUE, analysisData |-> Undefined],
   [ok |-> TRUE, analysisData |-> Report]}

Key(y3, y4, m1, m2) == <<"2", "0", y3, y4, "-", m1, m2>>

PeriodKeys ==
  {Key("1", "9", "1", "2"), Key("2", "0", "0", "1"), Key("2", "0", "0", "2"),
   Key("2", "0", "0", "3"), Key("2", "0", "1", "0")}

\* the aggregate stored under a period key
Aggregate(k) ==
  [average_score |-> 100 * KeyMonth(k) - 346, positive |-> KeyMonth(k),
   negative |-> 2, neutral |-> 1]

Entry(k) == <<k, Aggregate(k)>>

SentimentDoc(entries) ==
  [kind |-> "object", has_monthly |-> TRUE, monthly_sentiment |-> entries]

\* outcomes of sentimentResponse.json()
SentimentDocs ==
  {[ok |-> FALSE, doc |-> Null],
   [ok |-> TRUE, doc |-> [kind |-> "object", has_monthly |-> FALSE, monthly_sentiment |-> <<>>]],
   [ok |-> TRUE, doc |-> SentimentDoc(<<>>)],
   [ok |-> TRUE, doc |-> SentimentDoc(<<Entry(Key("2", "0", "0", "1")),
                                        Entry(Key("2", "0", "0", "3")),
                                        Entry(Key("2", "0", "0", "2"))>>)]}

Row(t, inb, txt) == [blank |-> FALSE, created_at |-> t, inbound |-> inb, text |-> txt]
BlankLine == [blank |-> TRUE, created_at |-> "", inbound |-> "", text |-> <<>>]

\* outcomes of tweetsResponse.text(): a rejection, or the lines after the header
CsvBodies ==
  {[ok |-> FALSE, lines |-> <<>>],
   [ok |-> TRUE, lines |-> <<>>],
   [ok |-> TRUE, lines |-> <<Row("T", "true", <<"R", "x">>)>>],
   [ok |-> TRUE, lines |-> <<Row("T1", "False", <<"x">>), BlankLine,
                             Row("T2", "True", <<"x", "r">>), Row("T3", "FALSE", <<"r">>),
                             Row("T4", "True", <<"R">>), Row("T5", "False", <<"r", "x">>),
                             Row("T6", "True", <<"r">>), Row("T7", "True", <<"R", "r">>)>>]}

\* dynamicTyping of papaparse: "true"/"TRUE" and "false"/"FALSE" become
\* booleans, other non-numeric cells stay strings
DynamicTyping(cell) ==
  IF cell \in {"true", "TRUE"} THEN [type |-> "boolean", val |-> "true"]
  ELSE IF cell \in {"false", "FALSE"} THEN [type |-> "boolean", val |-> "false"]
  ELSE [type |-> "string", val |-> cell]

\* Papa.parse(tweetsText, {header, skipEmptyLines, dynamicTyping}).data
\* (the created_at and text cells of the logs above are not numeric)
PapaParse(lines) ==
  LET rows == SelectSeq(lines, LAMBDA l : ~l.blank)
  IN  [i \in 1..Len(rows) |->
         [created_at |-> rows[i].created_at, inbound |-> DynamicTyping(rows[i].inbound),
          text |-> rows[i].text]]

ChartRow(e) ==
  [date |-> e[1], sentiment |-> e[2].average_score, positive |-> e[2].positive,
   negative |-> e[2].negative, neutral |-> e[2].neutral]

\* Object.entries(...).map(...).sort((a, b) => new Date(a.date) - new Date(b.date))
MonthlyData(entries) ==
  LET sorted == SortMonths(entries)
  IN  [i \in 1..Len(sorted) |-> ChartRow(sorted[i])]

----------------------------------------------------------------------------
(* Dashboard: initial state (the useState calls) *)

Init ==
  /\ loadPc = "fetch"
  /\ analysisJson = Null
  /\ sentimentJson = Null
  /\ analysisData = Null
  /\ loading = TRUE
  /\ chartData = <<>>
  /\ tweets = <<>>
  /\ sentimentData = Null
  /\ setCalls = {}
  /\ messages = <<>>
  /\ input = <<>>
  /\ chatLoading = FALSE
  /\ inflight = {}
  /\ requests = 0
  /\ escaped = FALSE
  /\ event = NoEvent
  /\ trendArg = Null
  /\ trendResult = Null

----------------------------------------------------------------------------
(* loadData *)

\* catch (console.error) and finally (setLoading(false)) of loadData
LoadCatch ==
  /\ loading' = FALSE
  /\ loadPc' = "done"

\* await Promise.all([fetch, fetch, fetch]): rejects when any fetch rejects
LoadFetch ==
  /\ loadPc = "fetch"
  /\ \E outcome \in {"ok", "reject"} :
       /\ event' = [op |-> "load", outcome |-> outcome, id |-> 0]
       /\ IF outcome = "ok"
          THEN loadPc' = "analysisJson" /\ UNCHANGED loading
          ELSE LoadCatch
  /\ UNCHANGED <<analysisJson, sentimentJson, analysisData, chartData, tweets,
                 sentimentData, setCalls, chatVars, trendVars>>

\* await analysisResponse.json()
LoadAnalysisJson ==
  /\ loadPc = "analysisJson"
  /\ \E d \in AnalysisDocs :
       /\ event' = [op |-> "load", outcome |-> IF d.ok THEN "ok" ELSE "reject", id |-> 1]
       /\ IF d.ok
          THEN analysisJson' = d /\ loadPc' = "sentimentJson" /\ UNCHANGED loading
          ELSE LoadCatch /\ UNCHANGED analysisJson
  /\ UNCHANGED <<sentimentJson, analysisData, chartData, tweets, sentimentData,
                 setCalls, chatVars, trendVars>>

\* await sentimentResponse.json()
LoadSentimentJson ==
  /\ loadPc = "sentimentJson"
  /\ \E d \in SentimentDocs :
       /\ event' = [op |-> "load", outcome |-> IF d.ok THEN "ok" ELSE "reject", id |-> 2]
       /\ IF d.ok
          THEN sentimentJson' = d.doc /\ loadPc' = "tweetsText" /\ UNCHANGED loading
          ELSE LoadCatch /\ UNCHANGED sentimentJson
  /\ UNCHANGED <<analysisJson, analysisData, chartData, tweets, sentimentData,
                 setCalls, chatVars, trendVars>>

\* await tweetsResponse.text() and the synchronous rest of the try block: the
\* setters run in program order until Object.entries(undefined) throws
LoadTweetsText ==
  /\ loadPc = "tweetsText"
  /\ \E c \in CsvBodies :
       /\ event' = [op |-> "load", outcome |-> IF c.ok THEN "ok" ELSE "reject", id |-> 3]
       /\ IF ~c.ok
          THEN UNCHANGED <<analysisData, sentimentData, tweets, chartData, setCalls>>
          ELSE /\ analysisData' = analysisJson.analysisData
               /\ sentimentData' = sentimentJson
               /\ tweets' = PapaParse(c.lines)
               /\ IF sentimentJson.has_monthly
                  THEN /\ chartData' = MonthlyData(sentimentJson.monthly_sentiment)
                       /\ setCalls' = {"analysisData", "sentimentData", "tweets", "chartData"}
                  ELSE /\ UNCHANGED chartData
                       /\ setCalls' = {"analysisData", "sentimentData", "tweets"}
       /\ LoadCatch
  /\ UNCHANGED <<analysisJson, sentimentJson, chatVars, trendVars>>

----------------------------------------------------------------------------
(* The chat *)

\* the component renders the dashboard (and the chat input) only past the two
\* early returns: if (loading) ...; if (!analysisData) return null
Rendered == ~loading /\ analysisData.kind = "report"

\* the texts the user may type: empty, blank, a query, a query after a space
Inputs == {<<>>, <<" ">>, <<"r">>, <<" ", "R">>}

\* fewer than MaxSends sends have been accepted so far
Room == Cardinality({i \in 1..Len(messages) : messages[i].role = "user"}) < MaxSends

\* onChange of the input: setInput(e.target.value)
SetInputFrom(texts) ==
  /\ Rendered
  /\ \E v \in texts :
       /\ v # input
       /\ input' = v
       /\ event' = [op |-> "input", outcome |-> "none", id |-> 0]
  /\ UNCHANGED <<loadVars, messages, chatLoading, inflight, requests, escaped, trendVars>>

SetInput == SetInputFrom(Inputs)

\* a finally block that leaves the flag set
FinallyLeavesLoading == TRUE

\* finally { setChatLoading(false) }
FinallyChatLoading == FALSE

\* handleSendMessage up to its await. processDataForChat runs synchronously
\* up to its fetch; when building the prompt throws, its promise is rejected
\* and the catch and finally blocks of handleSendMessage run before any other
\* event is delivered.
HandleSendMessage ==
  IF Trim(input) = <<>>
  THEN UNCHANGED chatVars
  ELSE LET newUserMessage == [role |-> "user", content |-> input]
       IN  /\ input' = <<>>
           /\ escaped' = escaped
           /\ IF ContextThrows(sentimentData)
              THEN /\ messages' = messages \o
                        <<newUserMessage, [role |-> "assistant", content |-> FallbackText]>>
                   /\ chatLoading' = FinallyChatLoading
                   /\ UNCHANGED <<inflight, requests>>
              ELSE /\ messages' = Append(messages, newUserMessage)
                   /\ chatLoading' = TRUE
                   /\ requests' = requests + 1
                   /\ inflight' = inflight \cup
                        {[id |-> Len(messages) + 1, stage |-> "fetch",
                          prompt |-> Context(input, analysisData, sentimentData, tweets)]}

\* onKeyPress of the input: e.key === 'Enter' && handleSendMessage()
KeyPressEnter ==
  /\ Rendered
  /\ Room
  /\ event' = [op |-> "enter", outcome |-> "none", id |-> 0]
  /\ HandleSendMessage
  /\ UNCHANGED <<loadVars, trendVars>>

\* onClick of the send button, which is disabled while chatLoading
ClickSend ==
  /\ Rendered
  /\ Room
  /\ ~chatLoading
  /\ event' = [op |-> "click", outcome |-> "none", id |-> 0]
  /\ HandleSendMessage
  /\ UNCHANGED <<loadVars, trendVars>>

\* the continuation of handleSendMessage after its await: the assistant
\* message is appended and the finally block runs
Resume(r, response) ==
  /\ messages' = Append(messages, [role |-> "assistant", content |-> response])
  /\ chatLoading' = FinallyChatLoading
  /\ inflight' = inflight \ {r}
  /\ UNCHANGED <<input, requests, escaped>>

\* the backend's answers to the POST: the fetch rejects, or resolves with a status
FetchOutcomes == {"reject", "200", "500"}
StatusOf(outcome) == IF outcome = "200" THEN 200 ELSE 500

\* await fetch(...) settles; if (!response.ok) throw; catch returns the fallback
FetchSettleOf(id) ==
  /\ \E r \in inflight, outcome \in FetchOutcomes :
       /\ r.id = id
       /\ r.stage = "fetch"
       /\ event' = [op |-> "fetch", outcome |-> outcome, id |-> r.id]
       /\ IF outcome # "reject" /\ ResponseOk(StatusOf(outcome))
          THEN /\ inflight' = (inflight \ {r}) \cup {[r EXCEPT !.stage = "json"]}
               /\ UNCHANGED <<messages, input, chatLoading, requests, escaped>>
          ELSE Resume(r, OllamaErrorReply)
  /\ UNCHANGED <<loadVars, trendVars>>

\* await response.json() settles; return data.response
JsonSettleOf(id) ==
  /\ \E r \in inflight, outcome \in {"badjson", "ok"} :
       /\ r.id = id
       /\ r.stage = "json"
       /\ event' = [op |-> "json", outcome |-> outcome, id |-> r.id]
       /\ IF outcome = "ok"
          THEN Resume(r, Answer(r.prompt))
          ELSE Resume(r, OllamaErrorReply)
  /\ UNCHANGED <<loadVars, trendVars>>

FetchSettle == \E id \in 1..MaxMessages : FetchSettleOf(id)

JsonSettle == \E id \in 1..MaxMessages : JsonSettleOf(id)

Next ==
  \/ LoadFetch
  \/ LoadAnalysisJson
  \/ LoadSentimentJson
  \/ LoadTweetsText
  \/ SetInput
  \/ KeyPressEnter
  \/ ClickSend
  \/ FetchSettle
  \/ JsonSettle

Spec == Init /\ [][Next]_vars

----------------------------------------------------------------------------
(* The chat on its own, from the states a completed load leaves *)

LoadedSentiment ==
  {SentimentDoc(<<>>),
   SentimentDoc(<<Entry(Key("2", "0", "0", "3")), Entry(Key("2", "0", "0", "1"))>>)}

LiveInit ==
  /\ loadPc = "done"
  /\ analysisJson = [ok |-> TRUE, analysisData |-> Report]
  /\ sentimentJson \in LoadedSentiment
  /\ analysisData = Report
  /\ loading = FALSE
  /\ chartData = MonthlyData(sentimentJson.monthly_sentiment)
  /\ tweets = PapaParse(<<Row("T", "True", <<"R", "x">>)>>)
  /\ sentimentData = sentimentJson
  /\ setCalls = {"analysisData", "sentimentData", "tweets", "chartData"}
  /\ messages = <<>>
  /\ input = <<>>
  /\ chatLoading = FALSE
  /\ inflight = {}
  /\ requests = 0
  /\ escaped = FALSE
  /\ event = NoEvent
  /\ trendArg = Null
  /\ trendResult = Null

\* the texts typed in the chat on its own: empty, blank, a query
LiveInputs == {<<>>, <<" ">>, <<"r">>, <<"r", " ", "R">>}

LiveSetInput == SetInputFrom(LiveInputs)

LiveNext ==
  \/ LiveSetInput
  \/ KeyPressEnter
  \/ ClickSend
  \/ FetchSettle
  \/ JsonSettle

\* The backend eventually answers or fails every request made to it.
LiveSpec ==
  /\ LiveInit
  /\ [][LiveNext]_vars
  /\ \A id \in 1..MaxMessages : WF_vars(FetchSettleOf(id)) /\ WF_vars(JsonSettleOf(id))

----------------------------------------------------------------------------
(* analyzeSentimentTrends on its own: every sentiment map of up to MaxPeriods *)
(* periods, in every insertion order                                         *)

RECURSIVE KeyOrders(_)
KeyOrders(n) ==
  IF n = 0 THEN {<<>>}
  ELSE KeyOrders(n - 1) \cup
       {Append(ks, k) : ks \in {u \in KeyOrders(n - 1) : Len(u) = n - 1}, k \in PeriodKeys}

DistinctKeys(ks) == \A i, j \in 1..Len(ks) : i # j => ks[i] # ks[j]

TrendInit ==
  /\ loadPc = "fetch"
  /\ analysisJson = Null
  /\ sentimentJson = Null
  /\ analysisData = Null
  /\ loading = TRUE
  /\ chartData = <<>>
  /\ tweets = <<>>
  /\ sentimentData = Null
  /\ setCalls = {}
  /\ messages = <<>>
  /\ input = <<>>
  /\ chatLoading = FALSE
  /\ inflight = {}
  /\ requests = 0
  /\ escaped = FALSE
  /\ event = NoEvent
  /\ trendArg \in {SentimentDoc([i \in 1..Len(ks) |-> Entry(ks[i])]) :
                     ks \in {u \in KeyOrders(MaxPeriods) : DistinctKeys(u)}}
  /\ trendResult = Null

\* const sentimentTrends = analyzeSentimentTrends(sentimentData)
CallAnalyzeSentimentTrends ==
  /\ trendResult = Null
  /\ trendResult' = analyzeSentimentTrends(trendArg)
  /\ UNCHANGED <<loadVars, chatVars, event, trendArg>>

TrendNext == CallAnalyzeSentimentTrends

TrendSpec == TrendInit /\ [][TrendNext]_vars

----------------------------------------------------------------------------
(* Properties *)

NumRole(role) == Cardinality({i \in 1..Len(messages) : messages[i].role = role})

FallbackMessage == [role |-> "assistant", content |-> FallbackText]

\* C1: while a send is waiting for the generation backend a further send is
\* a no-op, so at most one generation request is in flight at any moment.
C1_AtMostOneInFlight == Cardinality(inflight) <= 1

\* C2: the transcript strictly alternates user, assistant, user, assistant,
\* ..., and each generated assistant message answers the user message
\* directly before it.
C2_StrictAlternation ==
  \A i \in 1..Len(messages) :
    IF i % 2 = 1
    THEN messages[i].role = "user"
    ELSE /\ messages[i].role = "assistant"
         /\ messages[i].content \in
              {FallbackText, <<"answer to">> \o messages[i - 1].content}

\* C3: when the generation request fails in transport, returns a non-success
\* status or an unreadable body, that step appends exactly the fixed fallback
\* text as the next assistant message, makes no further request, lets no
\* exception escape and leaves chatLoading false.
C3_FailureYieldsFallback ==
  [][(/\ event'.op \in {"fetch", "json"}
      /\ event'.outcome \in {"reject", "500", "badjson"})
     => (/\ messages' = Append(messages, FallbackMessage)
         /\ chatLoading' = FALSE
         /\ requests' = requests
         /\ escaped' = FALSE
         /\ \A r \in inflight' : r.id # event'.id)]_vars

C3_Witness ==
  /\ event.op = "fetch"
  /\ event.outcome = "500"
  /\ messages # <<>>
  /\ messages[Len(messages)] = FallbackMessage
  /\ ~chatLoading

InFlight(id) == \E r \in inflight : r.id = id

\* C4: every accepted send has exactly one assistant message appended or
\* still owed, chatLoading is set only while a backend call is unsettled,
\* and under a backend that eventually answers or fails each request every
\* accepted send is eventually answered with chatLoading back to false.
C4_EverySendAnswered ==
  /\ [](NumRole("assistant") + Cardinality(inflight) = NumRole("user"))
  /\ [](chatLoading \in BOOLEAN /\ (chatLoading => inflight # {}))
  /\ \A id \in 1..MaxMessages :
       InFlight(id) ~>
         (/\ ~InFlight(id)
          /\ ~chatLoading
          /\ Len(messages) > id
          /\ messages[Len(messages)].role = "assistant")

C4_Witness ==
  /\ event.op = "json"
  /\ event.outcome = "ok"
  /\ inflight = {}
  /\ ~chatLoading
  /\ Len(messages) = 2
  /\ messages[2] = [role |-> "assistant", content |-> <<"answer to", "r">>]

AllDatasets == {"analysisData", "sentimentData", "tweets", "chartData"}

\* C5: the datasets are loaded as a group: whenever the dashboard is rendered
\* (and a query can be sent) all of them are set, and the analysis report is
\* never set while the log, the sentiment document or the chart rows are not.
C5_AtomicLoad ==
  /\ Rendered => setCalls = AllDatasets
  /\ analysisData.kind = "report" => setCalls = AllDatasets

\* the lower-cased white-space separated tokens of a query
QueryTokens(query) ==
  {t \in {SplitOnSpace(ToLowerCase(query))[k] :
            k \in 1..Len(SplitOnSpace(ToLowerCase(query)))} : t # <<>>}

ContainsToken(tweet, query) ==
  \E t \in QueryTokens(query) : Includes(ToLowerCase(tweet.text), t)

\* C6: the interactions selected for a query are exactly the first 5 records,
\* in log order, whose lower-cased text contains one of the query's
\* white-space separated tokens.
C6_OnlyTokenMatches ==
  \A r \in inflight :
    r.prompt.examples =
      TweetLines(SliceFirst(SelectSeq(tweets, LAMBDA t : ContainsToken(t, r.prompt.question)),
                            5))

\* chronological rank of a period key
Chron(k) == 12 * KeyYear(k) + KeyMonth(k)

KeysOf(entries) == {entries[i][1] : i \in 1..Len(entries)}

\* C7: the summary of a non-empty sentiment map has the chronologically
\* smallest period as earliest, the largest as latest, and as trend the last
\* 3 periods (all, if fewer) in ascending chronological order, each with its
\* own aggregate, whatever the order of the map's keys.
C7_SummaryChronological ==
  (trendResult # Null /\ trendArg.monthly_sentiment # <<>>) =>
    LET entries == trendArg.monthly_sentiment
        keys == KeysOf(entries)
        trend == trendResult.trend
    IN  /\ trendResult.earliest[1] \in keys
        /\ \A k \in keys : Chron(trendResult.earliest[1]) <= Chron(k)
        /\ trendResult.latest[1] \in keys
        /\ \A k \in keys : Chron(k) <= Chron(trendResult.latest[1])
        /\ trendResult.earliest = Entry(trendResult.earliest[1])
        /\ trendResult.latest = Entry(trendResult.latest[1])
        /\ Len(trend) = Min(3, Len(entries))
        /\ \A i \in 1..Len(trend) : trend[i] = Entry(trend[i][1]) /\ trend[i][1] \in keys
        /\ \A i \in 1..(Len(trend) - 1) : Chron(trend[i][1]) < Chron(trend[i + 1][1])
        /\ \A k \in keys \ KeysOf(trend) : Chron(k) < Chron(trend[1][1])

C7_Witness ==
  /\ trendResult # Null
  /\ Len(trendArg.monthly_sentiment) = 4
  /\ Chron(trendArg.monthly_sentiment[1][1]) > Chron(trendArg.monthly_sentiment[3][1])
  /\ Chron(trendArg.monthly_sentiment[4][1]) < Chron(trendArg.monthly_sentiment[2][1])
  /\ Len(trendResult.trend) = 3

\* the line a section would hold to state that it has no data
UnavailableNotice == [notice |-> "data unavailable"]

StatesUnavailable(section) ==
  section = <<>> => \E i \in 1..Len(section) : section[i] = UnavailableNotice

\* C8: with all datasets loaded, for every accepted query the prompt is composed without throwing and
\* the generation request is issued, and a section of the prompt that has no
\* evidence states that the data is unavailable.
C8_EmptyEvidenceStated ==
  setCalls = AllDatasets =>
    /\ requests = NumRole("user")
    /\ \A r \in inflight :
         /\ StatesUnavailable(r.prompt.examples)
         /\ StatesUnavailable(r.prompt.trends)
         /\ StatesUnavailable(r.prompt.issues)
         /\ StatesUnavailable(r.prompt.recommendations)

AllSpaces(s) == \A i \in 1..Len(s) : s[i] = " "

\* C9: a send whose pending input is empty after trimming changes nothing:
\* not the transcript, the pending input, chatLoading or the requests made,
\* and no exception escapes.
C9_BlankSendIsNoOp ==
  [][(event'.op \in {"enter", "click"} /\ AllSpaces(input))
     => UNCHANGED <<messages, input, chatLoading, requests, inflight, escaped>>]_vars

C9_Witness ==
  /\ event.op = "enter"
  /\ input = <<" ">>
  /\ messages = <<>>
  /\ requests = 0

\* the direction flag of a loaded record says inbound
IsInbound(tweet) == tweet.inbound.val \in {"True", "true"}

\* C10: every selected interaction is rendered with the speaker Customer when
\* its direction flag is inbound and Amazon otherwise, whichever way the
\* loader represents the flag.
C10_InboundIsCustomer ==
  \A r \in inflight :
    LET found == findRelevantTweets(tweets, r.prompt.question)
    IN  \A i \in 1..Len(r.prompt.examples) :
          r.prompt.examples[i] =
            [created_at |-> found[i].created_at,
             speaker |-> IF IsInbound(found[i]) THEN "Customer" ELSE "Amazon",
             text |-> found[i].text]

====
